---------------------------- MODULE Spec2Model ----------------------------
(***************************************************************************)
(* A model of parfun's deferred-value engine:                              *)
(*   - ProfiledFuture (parfun/backend/profiled_future.py), a               *)
(*     concurrent.futures.Future that also carries a task duration;        *)
(*   - DelayedValue (parfun/kernel/delayed_value.py), the handle that      *)
(*     submits a function to the current backend and forwards every        *)
(*     operation to the value the task resolves to;                        *)
(*   - the @delayed recursive fibonacci of examples/fibonacci.py.          *)
(*                                                                         *)
(* Four specifications share the module:                                   *)
(*   SpecFuture  one ProfiledFuture, competing completers, a canceller,    *)
(*               a waiter and done-callbacks;                              *)
(*   Spec        DelayedValue constructions against a backend;             *)
(*   SpecOps     operations forwarded by a handle to its resolved value;   *)
(*   SpecFib     the recursive @delayed fibonacci on a worker pool.        *)
(***************************************************************************)
EXTENDS Integers, Sequences, FiniteSets, TLC

VARIABLES
    \* ---- SpecFuture: one ProfiledFuture and the threads that use it
    future,        \* the ProfiledFuture's fields
    caller,        \* per completing thread: its set_result/set_exception call
    canceller,     \* the position of the thread calling cancel()
    waiter,        \* the thread awaiting result()/exception()/duration()/...
    registered,    \* callbacks handed to add_done_callback so far
    fired,         \* sequence of callback invocations: who ran what, and what it read
    seen,          \* the waiter's last call: the method, what it gave, the duration read
    transitions,   \* history: the calls whose super().set_*() was accepted
    \* ---- Spec: DelayedValue constructions
    current_backend, \* what get_parallel_backend() returns: "None" or "backend"
    pool_up,         \* FALSE once the backend's pool has been torn down
    dv,              \* per handle: the construction's position and the handle's fields
    fut,             \* per handle: the ProfiledFuture that Session.submit returned
    task,            \* per handle: the backend's work unit
    session,         \* per handle: enters and exits of the backend session
    awaited,         \* per handle: what each delayed_value() call gave, in order
    \* ---- SpecOps: forwarded operations
    op_self,         \* the value the handle's task resolved to
    op_other,        \* the other operand: a plain value or another handle
    op_log,          \* the operations applied: through the handle, and directly
    \* ---- SpecFib: recursive @delayed fibonacci
    allows_nested,   \* the backend's allows_nested_tasks()
    worker_backend,  \* what get_parallel_backend() returns inside a task
    fib_n,           \* the argument of the root call
    n_workers,       \* size of the worker pool
    ftask,           \* the tasks submitted so far (a sequence, in submission order)
    root,            \* what the main thread got from awaiting the root handle
    \* ---- SpecHandle: one handle, its resolved object, and its users
    h_future,        \* the handle's ProfiledFuture
    h_fields,        \* the handle's own attributes: _future, _backend_session
    heap,            \* the objects the future's result may refer to
    direct,          \* fn(*args) held directly, given the same writes
    h_repr,          \* the thread inside __repr__: its position and its output
    h_seen,          \* the last read: through the handle, and on the direct value
    \* ---- SpecParfun: one call of a @parfun-decorated function
    pf_input,        \* the partitioned argument: the items 1..pf_input
    pf_initial,      \* initial_partition_size
    pf_pc,           \* the engine's position
    pf_pos,          \* how many items the partition generator has handed out
    pf_chunks,       \* the chunks submitted, in submission order
    pf_head,         \* the next submitted chunk to await
    pf_acc,          \* the partial results handed to the combiner so far
    pf_result        \* what the call returned

future_vars == <<future, caller, canceller, waiter, registered, fired, seen,
                 transitions>>
dv_vars     == <<current_backend, pool_up, dv, fut,
                 task, session, awaited>>
ops_vars    == <<op_self, op_other, op_log>>
fib_vars    == <<allows_nested, worker_backend, fib_n, n_workers, ftask, root>>
handle_vars == <<h_future, h_fields, heap, direct, h_repr, h_seen>>
parfun_vars == <<pf_input, pf_initial, pf_pc, pf_pos, pf_chunks, pf_head, pf_acc,
                 pf_result>>
vars        == <<future_vars, dv_vars, ops_vars, fib_vars, handle_vars, parfun_vars>>

None == "None"

(***************************************************************************)
(* concurrent.futures.Future, as ProfiledFuture inherits it.               *)
(***************************************************************************)
PENDING   == "PENDING"
RUNNING   == "RUNNING"
CANCELLED == "CANCELLED"
CANCELLED_AND_NOTIFIED == "CANCELLED_AND_NOTIFIED"
FINISHED  == "FINISHED"

\* ProfiledFuture.__init__: Future.__init__ and then self._duration = None.
ProfiledFuture ==
    [state |-> PENDING, result |-> None, exception |-> None,
     duration |-> None, done_callbacks |-> <<>>]

\* Future.done()
DoneUnlessCancelled(f) == f.state = FINISHED
Done(f) == f.state \in {CANCELLED, CANCELLED_AND_NOTIFIED, FINISHED}

Cancelled(f) == f.state \in {CANCELLED, CANCELLED_AND_NOTIFIED}

\* The first statement of set_result / set_exception: self._duration = duration.
WriteDuration(f, d) == [f EXCEPT !.duration = d]

\* Future.set_result / set_exception raise InvalidStateError in these states.
RejectsIgnoringState(f) == FALSE
Rejects(f) == f.state \in {CANCELLED, CANCELLED_AND_NOTIFIED, FINISHED}

\* super().set_result(result), the part under the future's lock.
SuperSetResult(f, r) == [f EXCEPT !.result = r, !.state = FINISHED]

\* super().set_exception(exception), the part under the future's lock.
SuperSetException(f, e) == [f EXCEPT !.exception = e, !.state = FINISHED]

\* Future.result(): what a caller gets once the future is done.
ResultWrapped(f) ==
    IF Cancelled(f) THEN [kind |-> "raise", what |-> "CancelledError"]
    ELSE IF f.exception # None
         THEN [kind |-> "raise", what |-> "TaskRaised(" \o f.exception \o ")"]
    ELSE [kind |-> "return", what |-> f.result]
Result(f) ==
    IF Cancelled(f) THEN [kind |-> "raise", what |-> "CancelledError"]
    ELSE IF f.exception # None THEN [kind |-> "raise", what |-> f.exception]
    ELSE [kind |-> "return", what |-> f.result]

\* Future.exception(): what a caller gets once the future is done.
Exception(f) ==
    IF Cancelled(f) THEN [kind |-> "raise", what |-> "CancelledError"]
    ELSE [kind |-> "return", what |-> f.exception]


(***************************************************************************)
(* The variables of a specification that is not running keep these values. *)
(***************************************************************************)
FutureIdle ==
    /\ future = ProfiledFuture
    /\ caller = <<>>
    /\ canceller = <<>>
    /\ waiter = <<>>
    /\ registered = {}
    /\ fired = <<>>
    /\ seen = {}
    /\ transitions = <<>>

DVIdle ==
    /\ current_backend = None
    /\ pool_up = FALSE
    /\ dv = <<>>
    /\ fut = <<>>
    /\ task = <<>>
    /\ session = <<>>
    /\ awaited = <<>>

OpsIdle ==
    /\ op_self = <<>>
    /\ op_other = <<>>
    /\ op_log = {}

HandleIdle ==
    /\ h_future = <<>>
    /\ h_fields = <<>>
    /\ heap = <<>>
    /\ direct = <<>>
    /\ h_repr = <<>>
    /\ h_seen = {}

ParfunIdle ==
    /\ pf_input = 0
    /\ pf_initial = 0
    /\ pf_pc = None
    /\ pf_pos = 0
    /\ pf_chunks = <<>>
    /\ pf_head = 0
    /\ pf_acc = <<>>
    /\ pf_result = <<>>

FibIdle ==
    /\ allows_nested = FALSE
    /\ worker_backend = None
    /\ fib_n = 0
    /\ n_workers = 0
    /\ ftask = <<>>
    /\ root = -1

(***************************************************************************)
(* SpecFuture: one ProfiledFuture shared by completing threads (a backend  *)
(* worker and anything else that holds the future; each makes one call),   *)
(* a thread that cancels, a thread that waits, and a thread that registers *)
(* done-callbacks.                                                         *)
(***************************************************************************)
Completers == {"t1", "t2"}
Results    == {"r1", "r2"}
Errors     == {"e1"}
Durations  == {None, "d1", "d2"}
Callbacks  == {"cb1", "cb2"}
Methods    == {"result", "exception", "duration", "result_and_duration"}

IdleCall == [pc |-> "idle", kind |-> None, value |-> None, duration |-> None, i |-> 0]

not_future == <<dv_vars, ops_vars, fib_vars, handle_vars, parfun_vars>>

FutureInit ==
    /\ DVIdle /\ OpsIdle /\ FibIdle /\ HandleIdle /\ ParfunIdle
    /\ future = ProfiledFuture
    /\ caller = [t \in Completers |-> IdleCall]
    /\ canceller = [pc |-> "idle", i |-> 0]
    /\ waiter = [pc |-> "idle", method |-> None, got |-> None]
    /\ registered = {}
    /\ fired = <<>>
    /\ seen = {}
    /\ transitions = <<>>

\* ProfiledFuture.set_result(result, duration), first statement:
\* self._duration = duration, before anything is checked.
set_result(t, r, d) ==
    /\ caller[t].pc = "idle"
    /\ future' = WriteDuration(future, d)
    /\ caller' = [caller EXCEPT ![t] =
            [pc |-> "super", kind |-> "set_result", value |-> r, duration |-> d, i |-> 0]]
    /\ UNCHANGED <<canceller, waiter, registered, fired, seen, transitions>>
    /\ UNCHANGED not_future

\* ProfiledFuture.set_exception(exception, duration), first statement.
set_exception(t, e, d) ==
    /\ caller[t].pc = "idle"
    /\ future' = WriteDuration(future, d)
    /\ caller' = [caller EXCEPT ![t] =
            [pc |-> "super", kind |-> "set_exception", value |-> e, duration |-> d, i |-> 0]]
    /\ UNCHANGED <<canceller, waiter, registered, fired, seen, transitions>>
    /\ UNCHANGED not_future

\* return super().set_result(result) / super().set_exception(exception): under the
\* future's lock the call is rejected (InvalidStateError) or the state becomes
\* FINISHED; the callbacks are then invoked outside the lock.
SuperSetAccepted(t) ==
    /\ caller[t].pc = "super"
    /\ ~Rejects(future)
    /\ future' = IF caller[t].kind = "set_result"
                 THEN SuperSetResult(future, caller[t].value)
                 ELSE SuperSetException(future, caller[t].value)
    /\ transitions' = Append(transitions,
            [by |-> t, kind |-> caller[t].kind, value |-> caller[t].value,
             duration |-> caller[t].duration])
    /\ caller' = [caller EXCEPT ![t].pc = "invoke", ![t].i = 1]
    /\ UNCHANGED <<canceller, waiter, registered, fired, seen>>
    /\ UNCHANGED not_future

SuperSetRejected(t) ==
    /\ caller[t].pc = "super"
    /\ Rejects(future)
    /\ caller' = [caller EXCEPT ![t] = [IdleCall EXCEPT !.pc = "raised"]]
    /\ UNCHANGED <<future, canceller, waiter, registered, fired, seen, transitions>>
    /\ UNCHANGED not_future

\* One invocation of a done-callback by thread `by`; the callback reads the
\* future's duration (what a profiling callback does with a ProfiledFuture).
Invocation(cb, by) == [cb |-> cb, by |-> by, duration |-> future.duration]

\* Future._invoke_callbacks in the completing thread: the next callback, in list order.
InvokeCallback(t) ==
    /\ caller[t].pc = "invoke"
    /\ caller[t].i <= Len(future.done_callbacks)
    /\ fired' = Append(fired, Invocation(future.done_callbacks[caller[t].i], t))
    /\ caller' = [caller EXCEPT ![t].i = @ + 1]
    /\ UNCHANGED <<future, canceller, waiter, registered, seen, transitions>>
    /\ UNCHANGED not_future

InvokeCallbacksDone(t) ==
    /\ caller[t].pc = "invoke"
    /\ caller[t].i > Len(future.done_callbacks)
    /\ caller' = [caller EXCEPT ![t] = [IdleCall EXCEPT !.pc = "returned"]]
    /\ UNCHANGED <<future, canceller, waiter, registered, fired, seen, transitions>>
    /\ UNCHANGED not_future

\* Future.cancel(): refused (False) when running or finished, a no-op (True) when
\* already cancelled, else the state becomes CANCELLED and the callbacks run.
cancel ==
    /\ canceller.pc = "idle"
    /\ IF future.state \in {RUNNING, FINISHED} \/ Cancelled(future)
       THEN /\ canceller' = [canceller EXCEPT !.pc = "returned"]
            /\ UNCHANGED future
       ELSE /\ future' = [future EXCEPT !.state = CANCELLED]
            /\ canceller' = [pc |-> "invoke", i |-> 1]
    /\ UNCHANGED <<caller, waiter, registered, fired, seen, transitions>>
    /\ UNCHANGED not_future

CancelInvokeCallback ==
    /\ canceller.pc = "invoke"
    /\ IF canceller.i <= Len(future.done_callbacks)
       THEN /\ fired' = Append(fired,
                    Invocation(future.done_callbacks[canceller.i], "canceller"))
            /\ canceller' = [canceller EXCEPT !.i = @ + 1]
       ELSE /\ canceller' = [canceller EXCEPT !.pc = "returned"]
            /\ UNCHANGED fired
    /\ UNCHANGED <<future, caller, waiter, registered, seen, transitions>>
    /\ UNCHANGED not_future

\* ProfiledFuture.add_done_callback(function): appended while the future is not
\* done, else called at once by the registering thread.
add_done_callback(cb) ==
    /\ cb \notin registered
    /\ cb = "cb2" => "cb1" \in registered   \* the callbacks are named in registration order
    /\ registered' = registered \cup {cb}
    /\ IF ~Done(future)
       THEN /\ future' = [future EXCEPT !.done_callbacks = Append(@, cb)]
            /\ UNCHANGED fired
       ELSE /\ fired' = Append(fired, Invocation(cb, "registrar"))
            /\ UNCHANGED future
    /\ UNCHANGED <<caller, canceller, waiter, seen, transitions>>
    /\ UNCHANGED not_future

\* A waiter gets out of result() / exception(): it was blocked on the future's
\* condition, or found the future done on entry.  duration() and
\* result_and_duration() read self._duration afterwards, outside the lock.
Wake(m) ==
    /\ waiter.pc = "idle"
    /\ Done(future)
    /\ LET got == IF m \in {"result", "result_and_duration"}
                  THEN Result(future) ELSE Exception(future)
       IN  IF m \in {"result", "exception"} \/ got.kind = "raise"
           THEN /\ seen' = {[method |-> m, outcome |-> got, duration |-> "unread"]}
                /\ UNCHANGED waiter
           ELSE /\ waiter' = [pc |-> "read_duration", method |-> m, got |-> got]
                /\ UNCHANGED seen
    /\ UNCHANGED <<future, caller, canceller, registered, fired, transitions>>
    /\ UNCHANGED not_future

\* return self._duration (duration) / return result, self._duration
ReadDuration ==
    /\ waiter.pc = "read_duration"
    /\ seen' = {[method |-> waiter.method, outcome |-> waiter.got,
                  duration |-> future.duration]}
    /\ waiter' = [pc |-> "idle", method |-> None, got |-> None]
    /\ UNCHANGED <<future, caller, canceller, registered, fired, transitions>>
    /\ UNCHANGED not_future

FutureNext ==
    \/ \E t \in Completers, r \in Results, d \in Durations : set_result(t, r, d)
    \/ \E t \in Completers, e \in Errors, d \in Durations : set_exception(t, e, d)
    \/ \E t \in Completers : SuperSetAccepted(t)
    \/ \E t \in Completers : SuperSetRejected(t)
    \/ \E t \in Completers : InvokeCallback(t)
    \/ \E t \in Completers : InvokeCallbacksDone(t)
    \/ cancel
    \/ CancelInvokeCallback
    \/ \E cb \in Callbacks : add_done_callback(cb)
    \/ \E m \in Methods : Wake(m)
    \/ ReadDuration

SpecFuture == FutureInit /\ [][FutureNext]_vars

(***************************************************************************)
(* Spec: DelayedValue constructions.  One caller constructs the handles    *)
(* one after the other (a handle may be an argument of a later one); the   *)
(* backend runs the submitted tasks, and may be torn down; holders of a    *)
(* handle await it.                                                        *)
(***************************************************************************)
NHandles  == 2
MaxAwaits == 2

Handles   == 1..NHandles
\* The caller's program: the h-th construction is DelayedValue(f<h>, (arg,), {}).
FunctionOf(h) == "f" \o ToString(h)
Atoms     == {"a", "bad"}

\* The function handed to DelayedValue: pure, raising on the argument "bad".
Call(fn, v) ==
    IF v = "bad"
    THEN [raised |-> TRUE,  what |-> "Error@" \o fn]
    ELSE [raised |-> FALSE, what |-> fn \o "(" \o v \o ")"]

\* An argument is a plain value (handle = 0) or a handle constructed earlier.
\* An argument of a construction: a plain value, a handle, or a list holding
\* a handle (nested names the handle inside).
PlainArg(v)  == [handle |-> 0, value |-> v, nested |-> 0]
HandleArg(k) == [handle |-> k, value |-> None, nested |-> 0]
ListArg(k)   == [handle |-> 0, value |-> "[handle" \o ToString(k) \o "]", nested |-> k]
ArgsOf(h) == {PlainArg(v) : v \in Atoms}
             \cup {HandleArg(k) : k \in 1..(h - 1)}
             \cup {ListArg(k) : k \in 1..(h - 1)}

not_dv == <<future_vars, ops_vars, fib_vars, handle_vars, parfun_vars>>

NewHandle == [pc |-> "unborn", fn |-> None, arg |-> PlainArg(None), args |-> None,
              raised |-> None, backend_session |-> None, future |-> None]

Init ==
    /\ FutureIdle /\ OpsIdle /\ FibIdle /\ HandleIdle /\ ParfunIdle
    /\ current_backend \in {None, "backend"}
    /\ pool_up = TRUE
    /\ dv = [h \in Handles |-> NewHandle]
    /\ fut = [h \in Handles |-> ProfiledFuture]
    /\ task = [h \in Handles |-> [status |-> "none", ran |-> None]]
    /\ session = [h \in Handles |-> [entered |-> 0, exits |-> <<>>]]
    /\ awaited = [h \in Handles |-> <<>>]

\* arg.delayed_value() returns only once the argument's future is done.
ArgReadyNoWait(arg) == TRUE
ArgReadyWhenIdle(arg) ==
    /\ IF arg.handle = 0 THEN TRUE ELSE Done(fut[arg.handle])
    /\ \A k \in Handles : task[k].status \notin {"queued", "running"}
ArgReady(arg) == IF arg.handle = 0 THEN TRUE ELSE Done(fut[arg.handle])

\* _undelay_arguments, per argument:
\*     arg.delayed_value() if isinstance(arg, cls) else arg
UndelayArgumentDeep(arg) ==
    IF arg.nested # 0
    THEN IF Done(fut[arg.nested]) /\ Result(fut[arg.nested]).kind = "return"
         THEN [kind |-> "return", what |-> "[" \o Result(fut[arg.nested]).what \o "]"]
         ELSE [kind |-> "raise", what |-> "nested"]
    ELSE IF arg.handle = 0 THEN [kind |-> "return", what |-> arg.value]
    ELSE Result(fut[arg.handle])
UndelayArgumentSwallowing(arg) ==
    IF arg.handle = 0 THEN [kind |-> "return", what |-> arg.value]
    ELSE [kind |-> "return", what |-> Result(fut[arg.handle]).what]
UndelayArgument(arg) ==
    IF arg.handle = 0 THEN [kind |-> "return", what |-> arg.value]
    ELSE Result(fut[arg.handle])

\* DelayedValue.__init__, first statement: _undelay_arguments(args, kwargs),
\* which raises what a failed argument's await raises.
Undelay(h, arg) ==
    /\ dv[h].pc = "unborn"
    /\ h > 1 => dv[h - 1].pc \in {"returned", "raised"}
    /\ IF arg.handle = 0 THEN TRUE ELSE dv[arg.handle].pc = "returned"
    /\ IF arg.nested = 0 THEN TRUE ELSE dv[arg.nested].pc = "returned"
    /\ ArgReady(arg)
    /\ LET got == UndelayArgument(arg) IN
       dv' = [dv EXCEPT ![h] =
            IF got.kind = "raise"
            THEN [@ EXCEPT !.pc = "raised", !.fn = FunctionOf(h), !.arg = arg, !.raised = got.what]
            ELSE [@ EXCEPT !.pc = "undelayed", !.fn = FunctionOf(h), !.arg = arg, !.args = got.what]]
    /\ UNCHANGED <<current_backend, pool_up, fut, task,
                   session, awaited>>
    /\ UNCHANGED not_dv

\* if current_backend is None: the function runs in the caller and its result
\* goes into a fresh future; what the function raises leaves __init__.
NoBackend(h) ==
    /\ dv[h].pc = "undelayed"
    /\ current_backend = None
    /\ LET out == Call(dv[h].fn, dv[h].args) IN
       /\ task' = [task EXCEPT ![h].ran = "caller"]
       /\ IF out.raised
          THEN /\ dv' = [dv EXCEPT ![h].pc = "raised", ![h].raised = out.what,
                                   ![h].future = h]
               /\ fut' = [fut EXCEPT ![h] = ProfiledFuture]
          ELSE /\ dv' = [dv EXCEPT ![h].pc = "returned", ![h].future = h]
               /\ fut' = [fut EXCEPT ![h] =
                    SuperSetResult(WriteDuration(ProfiledFuture, None), out.what)]
    /\ UNCHANGED <<current_backend, pool_up, session, awaited>>
    /\ UNCHANGED not_dv

\* self._backend_session = current_backend.session().__enter__()
EnterSession(h) ==
    /\ dv[h].pc = "undelayed"
    /\ current_backend # None
    /\ session' = [session EXCEPT ![h].entered = @ + 1]
    /\ dv' = [dv EXCEPT ![h].pc = "entered", ![h].backend_session = "session"]
    /\ UNCHANGED <<current_backend, pool_up, fut, task, awaited>>
    /\ UNCHANGED not_dv

\* self._future = self._backend_session.submit(function, *args, **kwargs)
Submit(h) ==
    /\ dv[h].pc = "entered"
    /\ pool_up
    /\ fut' = [fut EXCEPT ![h] = ProfiledFuture]
    /\ task' = [task EXCEPT ![h].status = "queued"]
    /\ dv' = [dv EXCEPT ![h].pc = "submitted", ![h].future = h]
    /\ UNCHANGED <<current_backend, pool_up, session, awaited>>
    /\ UNCHANGED not_dv

\* submit raises once the pool is torn down; the error leaves __init__.
SubmitFails(h) ==
    /\ dv[h].pc = "entered"
    /\ ~pool_up
    /\ dv' = [dv EXCEPT ![h].pc = "raised", ![h].raised = "BackendUnavailable"]
    /\ UNCHANGED <<current_backend, pool_up, fut, task,
                   session, awaited>>
    /\ UNCHANGED not_dv

TypeOf(exception) == "type(" \o exception \o ")"
TracebackOf(exception) == exception \o ".__traceback__"

\* What on_done_callback hands to self._backend_session.__exit__.
ExitArgsNoError(exception) == <<None, None, None>>
ExitArgs(exception) ==
    IF exception # None
    THEN <<TypeOf(exception), exception, TracebackOf(exception)>>
    ELSE <<None, None, None>>

\* on_done_callback(completed_future), run by thread `by`: the session's exits
\* afterwards.  completed_future.exception() raises CancelledError on a cancelled
\* future, which ends the callback before any __exit__.
on_done_callback(h, by) ==
    LET exception == Exception(fut[h]) IN
    IF exception.kind = "raise"
    THEN session
    ELSE [session EXCEPT ![h].exits = Append(@, [by |-> by, args |-> ExitArgs(exception.what)])]

\* self._future.add_done_callback(on_done_callback); __init__ returns.
Register(h) ==
    /\ dv[h].pc = "submitted"
    /\ IF ~Done(fut[h])
       THEN /\ fut' = [fut EXCEPT ![h].done_callbacks = Append(@, "on_done_callback")]
            /\ UNCHANGED session
       ELSE /\ session' = on_done_callback(h, "caller")
            /\ UNCHANGED fut
    /\ dv' = [dv EXCEPT ![h].pc = "returned"]
    /\ UNCHANGED <<current_backend, pool_up, task, awaited>>
    /\ UNCHANGED not_dv

\* The backend: a worker takes a queued task,
StartTask(h) ==
    /\ task[h].status = "queued"
    /\ pool_up
    /\ task' = [task EXCEPT ![h].status = "running"]
    /\ UNCHANGED <<current_backend, pool_up, dv, fut,
                   session, awaited>>
    /\ UNCHANGED not_dv

\* runs the function and completes the task's future with what it returned or raised,
FinishTask(h) ==
    /\ task[h].status = "running"
    /\ ~Rejects(fut[h])
    /\ LET out == Call(dv[h].fn, dv[h].args) IN
       fut' = [fut EXCEPT ![h] =
            IF out.raised
            THEN SuperSetException(WriteDuration(@, "d1"), out.what)
            ELSE SuperSetResult(WriteDuration(@, "d1"), out.what)]
    /\ task' = [task EXCEPT ![h].status = "callbacks", ![h].ran = "backend"]
    /\ UNCHANGED <<current_backend, pool_up, dv, session, awaited>>
    /\ UNCHANGED not_dv

\* and then, in the same thread, Future._invoke_callbacks.
InvokeCallbacks(h) ==
    /\ task[h].status = "callbacks"
    /\ session' = IF Len(fut[h].done_callbacks) > 0
                  THEN on_done_callback(h, "backend") ELSE session
    /\ task' = [task EXCEPT ![h].status = IF Cancelled(fut[h]) THEN "cancelled" ELSE "done"]
    /\ UNCHANGED <<current_backend, pool_up, dv, fut, awaited>>
    /\ UNCHANGED not_dv

\* The pool is torn down: no task starts any more,
Teardown ==
    /\ pool_up
    /\ pool_up' = FALSE
    /\ UNCHANGED <<current_backend, dv, fut, task, session, awaited>>
    /\ UNCHANGED not_dv

\* and the futures of the tasks still queued are cancelled (Future.cancel()).
CancelTask(h) ==
    /\ ~pool_up
    /\ task[h].status = "queued"
    /\ fut[h].state = PENDING
    /\ fut' = [fut EXCEPT ![h].state = CANCELLED]
    /\ task' = [task EXCEPT ![h].status = "callbacks"]
    /\ UNCHANGED <<current_backend, pool_up, dv, session, awaited>>
    /\ UNCHANGED not_dv

\* Number of awaits made so far on the handles 1..h.
RECURSIVE TotalAwaits(_)
TotalAwaits(h) == IF h = 0 THEN 0 ELSE Len(awaited[h]) + TotalAwaits(h - 1)

\* An await that would evaluate the function anew: it puts the task back
\* in the queue behind a fresh future.
delayed_valueResubmitting(h) ==
    /\ dv[h].pc = "returned"
    /\ Done(fut[h])
    /\ TotalAwaits(NHandles) < MaxAwaits
    /\ awaited' = [awaited EXCEPT ![h] = Append(@, Result(fut[h]))]
    /\ task' = [task EXCEPT ![h].status = "queued"]
    /\ fut' = [fut EXCEPT ![h] = ProfiledFuture]
    /\ UNCHANGED <<current_backend, pool_up, dv, session>>
    /\ UNCHANGED not_dv

\* DelayedValue.delayed_value(): return self._future.result()
delayed_value(h) ==
    /\ dv[h].pc = "returned"
    /\ Done(fut[h])
    /\ TotalAwaits(NHandles) < MaxAwaits
    /\ awaited' = [awaited EXCEPT ![h] = Append(@, Result(fut[h]))]
    /\ UNCHANGED <<current_backend, pool_up, dv, fut, task, session>>
    /\ UNCHANGED not_dv

Next ==
    \/ \E h \in Handles : \E arg \in ArgsOf(h) : Undelay(h, arg)
    \/ \E h \in Handles : NoBackend(h)
    \/ \E h \in Handles : EnterSession(h)
    \/ \E h \in Handles : Submit(h)
    \/ \E h \in Handles : SubmitFails(h)
    \/ \E h \in Handles : Register(h)
    \/ \E h \in Handles : StartTask(h)
    \/ \E h \in Handles : FinishTask(h)
    \/ \E h \in Handles : InvokeCallbacks(h)
    \/ Teardown
    \/ \E h \in Handles : CancelTask(h)
    \/ \E h \in Handles : delayed_value(h)

Spec == Init /\ [][Next]_vars

(***************************************************************************)
(* Claims about ProfiledFuture, checked under SpecFuture.                  *)
(***************************************************************************)

\* What result() and exception() give for the call that completed the future.
OutcomeOf(call, m) ==
    IF m \in {"result", "result_and_duration"}
    THEN IF call.kind = "set_exception"
         THEN [kind |-> "raise", what |-> call.value]
         ELSE [kind |-> "return", what |-> call.value]
    ELSE [kind |-> "return",
          what |-> IF call.kind = "set_exception" THEN call.value ELSE None]

\* C1: a ProfiledFuture leaves the pending state exactly once.  At most one
\* set_result/set_exception call is ever accepted; once one has been, every
\* later call is rejected, the future stays FINISHED with the value or error of
\* the accepted call, and result()/exception() give every waiter that value or
\* error, whenever they ask.
C1_LeavesPendingOnce ==
    /\ Len(transitions) <= 1
    /\ Len(transitions) = 1 =>
          LET call == transitions[1] IN
          /\ future.state = FINISHED
          /\ future.result = (IF call.kind = "set_result" THEN call.value ELSE None)
          /\ future.exception = (IF call.kind = "set_exception" THEN call.value ELSE None)
          /\ \A o \in seen : o.outcome = OutcomeOf(call, o.method)
    /\ Len(transitions) = 0 => future.result = None /\ future.exception = None

\* C1's case: a call was accepted, a later call by another thread was rejected,
\* and a waiter has read the stored value or error since.
C1_Witness ==
    /\ Len(transitions) = 1
    /\ \E t \in Completers : caller[t].pc = "raised" /\ t # transitions[1].by
    /\ seen # {}

\* C2: for the completion set_result(r, d) / set_exception(e, d) of a future
\* that is completed with a duration d, every waiter woken from duration() or
\* result_and_duration() and every done-callback fired reads duration = d.
C2_DurationOfTheCompletion ==
    (Len(transitions) >= 1 /\ transitions[1].duration # None) =>
        LET d == transitions[1].duration IN
        /\ \A i \in 1..Len(fired) : fired[i].duration = d
        /\ \A o \in seen : o.duration # "unread" => o.duration = d

(***************************************************************************)
(* Claims about DelayedValue, checked under Spec.                          *)
(***************************************************************************)

\* What the task of handle h does: the function applied to the undelayed argument.
TaskOutcome(h) == Call(dv[h].fn, dv[h].args)

\* fn(*args) evaluated directly, with no handle anywhere: the value of the
\* expression that the h-th construction stands for.
RECURSIVE DirectValue(_)
DirectValue(h) ==
    LET a == dv[h].arg IN
    Call(dv[h].fn, IF a.handle = 0 THEN a.value ELSE DirectValue(a.handle)).what

\* C3: a session entered by a construction is exited at most once and only
\* once its future has completed; when the task resolved or failed, the
\* construction has returned and the completing thread is through with the
\* callbacks, it has been exited exactly once, with (type, value, traceback) of
\* the task's error on failure and (None, None, None) on success, whether the
\* future completed before or after the callback was registered.
C3_SessionExitedExactlyOnce ==
    \A h \in Handles :
        LET exits == session[h].exits IN
        /\ Len(exits) <= 1
        /\ Len(exits) <= session[h].entered
        /\ Len(exits) = 1 => fut[h].state = FINISHED
        /\ (session[h].entered = 1 /\ dv[h].pc = "returned" /\ task[h].status = "done") =>
              /\ Len(exits) = 1
              /\ exits[1].args =
                    (IF TaskOutcome(h).raised
                     THEN <<TypeOf(TaskOutcome(h).what), TaskOutcome(h).what,
                            TracebackOf(TaskOutcome(h).what)>>
                     ELSE <<None, None, None>>)

\* C3's case: a task failed before the callback was registered, and the
\* registration itself exited the session with the task's error.
C3_Witness ==
    \E h \in Handles :
        /\ Len(session[h].exits) = 1
        /\ session[h].exits[1].by = "caller"
        /\ fut[h].exception # None
        /\ task[h].status = "done"

\* C4: a session entered for a handle whose future ends cancelled is exited:
\* once the future is cancelled, the callbacks have run and the construction
\* has returned, the session does not remain open.
C4_SessionReleasedOnCancellation ==
    \A h \in Handles :
        (Cancelled(fut[h]) /\ task[h].status = "cancelled" /\ dv[h].pc = "returned")
            => Len(session[h].exits) = session[h].entered

\* C5: when the task behind a handle failed with error E, every await of the
\* handle, the first and each repeated one, raises E itself.
C5_ErrorIdentity ==
    \A h \in Handles :
        (dv[h].pc = "returned" /\ fut[h].state = FINISHED /\ TaskOutcome(h).raised) =>
            \A i \in 1..Len(awaited[h]) :
                awaited[h][i] = [kind |-> "raise", what |-> TaskOutcome(h).what]

\* C5's case: a handle whose task failed has been awaited twice.
C5_Witness ==
    \E h \in Handles :
        /\ task[h].status = "done"
        /\ TaskOutcome(h).raised
        /\ Len(awaited[h]) = 2

\* C6: when handle h (for g) is constructed with handle k (for f) as its
\* argument, then by the time g is submitted (or run) f's task has completed
\* and g's argument is f's resolved value, not the handle; and when g's task
\* resolves the outer handle holds g(f(x)).
C6_NestedDependency ==
    \A h \in Handles :
        LET k == dv[h].arg.handle IN
        (k # 0 /\ dv[h].pc # "unborn") =>
            /\ (task[h].status # "none" \/ task[h].ran # None) =>
                  /\ fut[k].state = FINISHED
                  /\ task[k].ran # None
                  /\ dv[h].args = DirectValue(k)
            /\ (fut[h].state = FINISHED /\ fut[h].exception = None) =>
                  /\ fut[h].result = DirectValue(h)
                  /\ \A i \in 1..Len(awaited[h]) :
                        awaited[h][i] = [kind |-> "return", what |-> DirectValue(h)]

\* C6's case: on a backend, handle 2 was constructed over handle 1, its task
\* resolved, and a holder got g(f(a)) from it.
C6_Witness ==
    /\ current_backend # None
    /\ dv[2].arg.handle = 1
    /\ task[1].ran = "backend" /\ task[2].ran = "backend"
    /\ Len(awaited[2]) >= 1
    /\ awaited[2][1] = [kind |-> "return", what |-> "f2(f1(a))"]

\* C8: with no backend configured, a construction whose arguments resolved
\* acquires no session, runs fn in the caller and returns a handle whose future
\* is already done; what a holder then gets from the handle is what the
\* backend's future would give: fn's value, or fn's error raised by the await.
C8_NoBackendIsEquivalent ==
    \A h \in Handles :
        (current_backend = None /\ dv[h].args # None
            /\ dv[h].pc \notin {"unborn", "undelayed"}) =>
            /\ session[h].entered = 0
            /\ task[h].ran = "caller"
            /\ dv[h].pc = "returned"
            /\ Done(fut[h])
            /\ Result(fut[h]) =
                  (IF TaskOutcome(h).raised
                   THEN [kind |-> "raise", what |-> TaskOutcome(h).what]
                   ELSE [kind |-> "return", what |-> TaskOutcome(h).what])

(***************************************************************************)
(* SpecOps: the operations a handle forwards.  The handle's task resolved  *)
(* to op_self; the other operand, op_other, is a plain value or another    *)
(* resolved handle.  Each operation is evaluated by the interpreter's      *)
(* operator protocol twice: on the handle (and on op_other as it is), and  *)
(* directly on the resolved values.  Numbers are held as a type and the    *)
(* number of halves, so that 2.5 is [type |-> "float", halves |-> 5].      *)
(***************************************************************************)
IntOf(n)    == [type |-> "int", halves |-> 2 * n]
FloatOf(hv) == [type |-> "float", halves |-> hv]
Values      == {IntOf(1), IntOf(4), FloatOf(8), FloatOf(5)}

\* An operand of an expression: a DelayedValue handle over val, or val itself.
Operand(is_handle, val) == [handle |-> is_handle, val |-> val]
Operands == {Operand(b, v) : b \in BOOLEAN, v \in Values}

\* The outcomes of evaluating a method or an expression.
Value(v)         == [kind |-> "value", type |-> v.type, halves |-> v.halves]
Bool(b)          == [kind |-> "value", type |-> "bool", halves |-> IF b THEN 2 ELSE 0]
Raises(error)    == [kind |-> "raise", type |-> error, halves |-> 0]
NotImplemented   == [kind |-> "NotImplemented", type |-> None, halves |-> 0]

\* The methods of the forwarded set that the built-in numbers define (they
\* define no in-place method).
NumberMethods == {"__add__", "__radd__", "__eq__", "__lt__", "__gt__"}
HasMethod(type, method_name) ==
    type \in {"int", "float"} /\ method_name \in NumberMethods

\* getattr(value, method_name)(arg) for a built-in number: int gives
\* NotImplemented for a float, and both give it for any foreign object, a
\* DelayedValue among them.
NumberMethod(value, method_name, arg) ==
    IF arg.handle THEN NotImplemented
    ELSE IF value.type = "int" /\ arg.val.type = "float" THEN NotImplemented
    ELSE LET type == value.type IN
         CASE method_name \in {"__add__", "__radd__"} ->
                Value([type |-> type, halves |-> value.halves + arg.val.halves])
           [] method_name = "__eq__" -> Bool(value.halves = arg.val.halves)
           [] method_name = "__lt__" -> Bool(value.halves < arg.val.halves)
           [] method_name = "__gt__" -> Bool(value.halves > arg.val.halves)

\* _undelay_arguments on the one positional argument of a forwarded method.
UndelayOperand(arg) == Operand(FALSE, arg.val)

\* The wrapper that _add_overloaded_method installs under method_name:
\* getattr(self.delayed_value(), method_name)(*undelayed args).
wrapper(value, method_name, arg) ==
    IF HasMethod(value.type, method_name)
    THEN NumberMethod(value, method_name, UndelayOperand(arg))
    ELSE Raises("AttributeError")

\* __OVERLOADED_METHODS: every one of them is defined on DelayedValue.
OVERLOADED_METHODS == NumberMethods \cup {"__iadd__"}

TypeOfOperand(o) == IF o.handle THEN "DelayedValue" ELSE o.val.type

\* Whether type(o) defines method_name.
Defines(o, method_name) ==
    IF o.handle THEN method_name \in OVERLOADED_METHODS
    ELSE HasMethod(o.val.type, method_name)

\* type(o).method_name(o, arg), for a type that defines it.
MethodCall(o, method_name, arg) ==
    IF o.handle THEN wrapper(o.val, method_name, arg)
    ELSE NumberMethod(o.val, method_name, arg)

\* a + b: a's __add__, then, for operands of different types, b's __radd__.
BinaryAdd(a, b) ==
    LET r1 == IF Defines(a, "__add__") THEN MethodCall(a, "__add__", b)
              ELSE NotImplemented
    IN IF r1 # NotImplemented THEN r1
       ELSE IF TypeOfOperand(a) # TypeOfOperand(b) /\ Defines(b, "__radd__")
            THEN LET r2 == MethodCall(b, "__radd__", a)
                 IN IF r2 # NotImplemented THEN r2 ELSE Raises("TypeError")
       ELSE Raises("TypeError")

\* a += b: a's __iadd__ when its type defines one, else a + b.
InPlaceAdd(a, b) ==
    LET r1 == IF Defines(a, "__iadd__") THEN MethodCall(a, "__iadd__", b)
              ELSE NotImplemented
    IN IF r1 # NotImplemented THEN r1 ELSE BinaryAdd(a, b)

\* a == b and a < b: a's method, then b's reflected one; == then falls back
\* to identity (the operands are distinct objects), < raises.
Compare(a, b, method_name, reflected_name) ==
    LET r1 == IF Defines(a, method_name) THEN MethodCall(a, method_name, b)
              ELSE NotImplemented
    IN IF r1 # NotImplemented THEN r1
       ELSE LET r2 == IF Defines(b, reflected_name)
                      THEN MethodCall(b, reflected_name, a)
                      ELSE NotImplemented
            IN IF r2 # NotImplemented THEN r2
               ELSE IF method_name = "__eq__" THEN Bool(FALSE)
               ELSE Raises("TypeError")

Operations == {"self + other", "other + self", "self += other",
               "self == other", "self < other"}

Evaluate(operation, self, other) ==
    CASE operation = "self + other"  -> BinaryAdd(self, other)
      [] operation = "other + self"  -> BinaryAdd(other, self)
      [] operation = "self += other" -> InPlaceAdd(self, other)
      [] operation = "self == other" -> Compare(self, other, "__eq__", "__eq__")
      [] operation = "self < other"  -> Compare(self, other, "__lt__", "__gt__")

not_ops == <<future_vars, dv_vars, fib_vars, handle_vars, parfun_vars>>

OpsInit ==
    /\ op_self \in Values
    /\ op_other \in Operands
    /\ op_log = {}
    /\ FutureIdle
    /\ DVIdle
    /\ FibIdle
    /\ HandleIdle
    /\ ParfunIdle

\* One forwarded operation: on the handle over op_self, and the same
\* operation on what fn(*args) gave, with the other operand's value.
Apply(operation) ==
    /\ \A e \in op_log : e.operation # operation
    /\ op_log' = op_log \cup
          {[operation |-> operation,
            handle |-> Evaluate(operation, Operand(TRUE, op_self), op_other),
            direct |-> Evaluate(operation, Operand(FALSE, op_self),
                                UndelayOperand(op_other))]}
    /\ UNCHANGED <<op_self, op_other>>
    /\ UNCHANGED not_ops

OpsNext == \E operation \in Operations : Apply(operation)

SpecOps == OpsInit /\ [][OpsNext]_vars

\* C7: every forwarded operation gives on the handle what it gives on
\* fn(*args) directly, whether the other operand is a plain value or a
\* handle, of the resolved value's type or of another.
C7_DeferredTransparency ==
    \A e \in op_log : e.handle = e.direct

(***************************************************************************)
(* SpecFib: the recursive @delayed fibonacci of examples/fibonacci.py on a *)
(* pool of n_workers workers.  The main thread constructs the root handle  *)
(* and awaits it.  A worker runs fibonacci(n): for n < 2 it returns n,     *)
(* else it constructs the handle of fibonacci(n - 1), then the handle of   *)
(* fibonacci(n - 2), and evaluates left + right: the forwarded __add__     *)
(* first awaits its argument (right), then the handle itself (left).  A    *)
(* task keeps its worker from its start to its return.  ftask holds the    *)
(* submitted tasks in submission order; ftask[1] is the root.              *)
(***************************************************************************)
MaxN       == 4
MaxWorkers == 3

not_fib == <<future_vars, dv_vars, ops_vars, handle_vars, parfun_vars>>

\* fibonacci(n) when every construction inside it evaluates synchronously
\* (DelayedValue.__init__ with no current backend).
RECURSIVE fibonacci(_)
fibonacci(n) == IF n >= 2 THEN fibonacci(n - 1) + fibonacci(n - 2) ELSE n

\* What get_parallel_backend() may return inside a task: the pool makes the
\* backend ambient where tasks may submit sub-tasks; elsewhere a worker may
\* see the backend or none.
WorkerBackends(nested_allowed) ==
    IF nested_allowed THEN {"backend"} ELSE {None, "backend"}

\* The work unit and the handle of one DelayedValue(fibonacci, (n,), {})
\* constructed with a backend: the session is entered and the task queued.
FibTask(n, parent) ==
    [n |-> n, parent |-> parent, status |-> "queued", session |-> "entered",
     left |-> 0, lvalue |-> -1, right |-> 0, rvalue |-> -1, value |-> -1]

FibInit ==
    /\ fib_n \in 0..MaxN
    /\ n_workers \in 1..MaxWorkers
    /\ allows_nested \in BOOLEAN
    /\ worker_backend \in WorkerBackends(allows_nested)
    /\ ftask = <<>>
    /\ root = -1
    /\ FutureIdle
    /\ DVIdle
    /\ OpsIdle
    /\ HandleIdle
    /\ ParfunIdle

\* The tasks that hold a worker.
Occupying == {t \in 1..Len(ftask) : ftask[t].status \notin {"queued", "done"}}

\* The main thread calls fibonacci(fib_n): the backend is set there, so the
\* construction enters a session, submits and registers the callback.
MainConstruct ==
    /\ ftask = <<>>
    /\ ftask' = <<FibTask(fib_n, 0)>>
    /\ UNCHANGED <<allows_nested, worker_backend, fib_n, n_workers, root>>
    /\ UNCHANGED not_fib

\* A free worker takes a queued task.
Start(t) ==
    /\ ftask[t].status = "queued"
    /\ Cardinality(Occupying) < n_workers
    /\ ftask' = [ftask EXCEPT ![t].status = "running"]
    /\ UNCHANGED <<allows_nested, worker_backend, fib_n, n_workers, root>>
    /\ UNCHANGED not_fib

\* The task's future is completed with v; on_done_callback exits the session.
Complete(t, v) ==
    [ftask EXCEPT ![t].status = "done", ![t].value = v, ![t].session = "exited"]

\* fibonacci(n) for n < 2: return n.
ReturnLeaf(t) ==
    /\ ftask[t].status = "running"
    /\ ftask[t].n < 2
    /\ ftask' = Complete(t, ftask[t].n)
    /\ UNCHANGED <<allows_nested, worker_backend, fib_n, n_workers, root>>
    /\ UNCHANGED not_fib

\* DelayedValue(fibonacci, (n,), {}) constructed inside task t, as its left
\* or right operand: with no current backend the function runs at once in the
\* worker; with one, a session is entered and the task is submitted.
\* allows_nested_tasks() is not consulted.
Construct(t, side, n) ==
    IF worker_backend = None
    THEN IF side = "left"
         THEN [ftask EXCEPT ![t].lvalue = fibonacci(n), ![t].status = "left_built"]
         ELSE [ftask EXCEPT ![t].rvalue = fibonacci(n), ![t].status = "right_built"]
    ELSE LET child == Len(ftask) + 1 IN
         IF side = "left"
         THEN Append([ftask EXCEPT ![t].left = child, ![t].status = "left_built"],
                     FibTask(n, t))
         ELSE Append([ftask EXCEPT ![t].right = child, ![t].status = "right_built"],
                     FibTask(n, t))

\* fibonacci(n) for n >= 2: the call fibonacci(n - 1).
ConstructLeft(t) ==
    /\ ftask[t].status = "running"
    /\ ftask[t].n >= 2
    /\ ftask' = Construct(t, "left", ftask[t].n - 1)
    /\ UNCHANGED <<allows_nested, worker_backend, fib_n, n_workers, root>>
    /\ UNCHANGED not_fib

\* ... then the call fibonacci(n - 2).
ConstructRight(t) ==
    /\ ftask[t].status = "left_built"
    /\ ftask' = Construct(t, "right", ftask[t].n - 2)
    /\ UNCHANGED <<allows_nested, worker_backend, fib_n, n_workers, root>>
    /\ UNCHANGED not_fib

\* left + right, first half: the wrapper's _undelay_arguments blocks in
\* right.delayed_value() until the right handle's future is done.
AwaitRight(t) ==
    /\ ftask[t].status = "right_built"
    /\ ftask[t].right # 0 => ftask[ftask[t].right].status = "done"
    /\ ftask' = [ftask EXCEPT
                   ![t].rvalue = IF ftask[t].right = 0 THEN ftask[t].rvalue
                                 ELSE ftask[ftask[t].right].value,
                   ![t].status = "right_got"]
    /\ UNCHANGED <<allows_nested, worker_backend, fib_n, n_workers, root>>
    /\ UNCHANGED not_fib

\* left + right, second half: self.delayed_value() blocks until the left
\* handle's future is done; the sum is the task's return value.
AddAndReturn(t) ==
    /\ ftask[t].status = "right_got"
    /\ ftask[t].left # 0 => ftask[ftask[t].left].status = "done"
    /\ LET lvalue == IF ftask[t].left = 0 THEN ftask[t].lvalue
                     ELSE ftask[ftask[t].left].value
       IN ftask' = Complete(t, lvalue + ftask[t].rvalue)
    /\ UNCHANGED <<allows_nested, worker_backend, fib_n, n_workers, root>>
    /\ UNCHANGED not_fib

\* The main thread awaits the root handle.
MainAwait ==
    /\ ftask # <<>>
    /\ ftask[1].status = "done"
    /\ root = -1
    /\ root' = ftask[1].value
    /\ UNCHANGED <<allows_nested, worker_backend, fib_n, n_workers, ftask>>
    /\ UNCHANGED not_fib

FibNext ==
    \/ MainConstruct
    \/ \E t \in 1..Len(ftask) : Start(t)
    \/ \E t \in 1..Len(ftask) : ReturnLeaf(t)
    \/ \E t \in 1..Len(ftask) : ConstructLeft(t)
    \/ \E t \in 1..Len(ftask) : ConstructRight(t)
    \/ \E t \in 1..Len(ftask) : AwaitRight(t)
    \/ \E t \in 1..Len(ftask) : AddAndReturn(t)
    \/ MainAwait

SpecFib == FibInit /\ [][FibNext]_vars

\* A task that holds its worker while it waits for a child that is not done.
Blocked(t) ==
    \/ ftask[t].status = "right_built" /\ ftask[t].right # 0
          /\ ftask[ftask[t].right].status # "done"
    \/ ftask[t].status = "right_got" /\ ftask[t].left # 0
          /\ ftask[ftask[t].left].status # "done"

\* C9: on a backend that permits nested tasks, for every n and every pool
\* size, no state is reached where every worker is held by a task waiting for
\* children (which, with no worker free, are never scheduled), and the value
\* the main thread gets from the root handle is fib(n).
C9_RecursiveGraphTerminates ==
    allows_nested =>
        /\ ~(Cardinality(Occupying) = n_workers /\ \A t \in Occupying : Blocked(t))
        /\ root # -1 => root = fibonacci(fib_n)

\* C10: on a backend that does not permit nested submission, a construction
\* inside a task acquires no session and submits nothing: every task of the
\* backend, and every session, comes from the main thread.
C10_NestedFallback ==
    ~allows_nested =>
        \A t \in 1..Len(ftask) :
            ftask[t].parent # 0 => ftask[t].session = "none"

(***************************************************************************)
(* SpecHandle: one DelayedValue whose construction has returned, and what  *)
(* its holders do with it while and after the backend completes its        *)
(* future: __repr__, attribute and item writes, in-place addition, reads.  *)
(* The task resolves to the object "obj" of the heap: a container with     *)
(* items and an attribute year.  `direct` is the same object as the       *)
(* function gives it to a caller that uses no handle, and it receives the  *)
(* same writes.                                                            *)
(***************************************************************************)
MaxItems == 3

not_handle == <<future_vars, dv_vars, ops_vars, fib_vars, parfun_vars>>

Written    == {"w"}
AttrNames  == {"year"}
Indices    == 0..(MaxItems - 1)

\* What fn(*args) returns.
FreshObject == [items |-> <<"a", "b">>, year |-> "y0"]

\* The handle's own attributes after __init__ with a backend.
HandleFields == [_future |-> "future", _backend_session |-> "session"]

HandleInit ==
    /\ h_future = ProfiledFuture
    /\ h_fields = HandleFields
    /\ heap = [ref \in {"obj"} |-> FreshObject]
    /\ direct = FreshObject
    /\ h_repr = [pc |-> "idle", out |-> <<>>]
    /\ h_seen = {}
    /\ FutureIdle
    /\ DVIdle
    /\ OpsIdle
    /\ FibIdle
    /\ ParfunIdle

\* The backend completes the handle's future: with the task's object,
HResolve(d) ==
    /\ ~Rejects(WriteDuration(h_future, d))
    /\ h_future' = SuperSetResult(WriteDuration(h_future, d), "obj")
    /\ UNCHANGED <<h_fields, heap, direct, h_repr, h_seen>>
    /\ UNCHANGED not_handle

\* ... or with the task's error,
HFail(d) ==
    /\ ~Rejects(WriteDuration(h_future, d))
    /\ h_future' = SuperSetException(WriteDuration(h_future, d), "e1")
    /\ UNCHANGED <<h_fields, heap, direct, h_repr, h_seen>>
    /\ UNCHANGED not_handle

\* ... or the future is cancelled.
HCancel ==
    /\ h_future.state = PENDING
    /\ h_future' = [h_future EXCEPT !.state = CANCELLED]
    /\ UNCHANGED <<h_fields, heap, direct, h_repr, h_seen>>
    /\ UNCHANGED not_handle

\* __repr__: `if self._future.done()`.
ReprSkipsDone(f) == TRUE
ReprFutureDone(f) == Done(f)

\* f"DelayedValue({value})" with value = "<pending>".
PendingRendering == <<"DelayedValue(", "<pending>", ")">>

\* What repr shows of an object.
ReprOf(object) == <<object.year>> \o object.items

\* __repr__, the test: a pending future gives "DelayedValue(<pending>)" at
\* once; a done one sends the thread into self.delayed_value().
ReprTest ==
    /\ h_repr.pc = "idle"
    /\ IF ReprFutureDone(h_future)
       THEN h_repr' = [h_repr EXCEPT !.pc = "delayed_value"]
       ELSE h_repr' = [pc |-> "idle", out |-> PendingRendering]
    /\ UNCHANGED <<h_future, h_fields, heap, direct, h_seen>>
    /\ UNCHANGED not_handle

\* __repr__, self.delayed_value().__repr__(): Future.result() returns (or
\* raises) only when the future is done, and waits until then.
ReprValue ==
    /\ h_repr.pc = "delayed_value"
    /\ Done(h_future)
    /\ LET got == Result(h_future) IN
       h_repr' = [pc |-> "idle",
                  out |-> IF got.kind = "raise" THEN <<"raise", got.what>>
                          ELSE <<"DelayedValue(">> \o ReprOf(heap[got.what]) \o <<")">>]
    /\ UNCHANGED <<h_future, h_fields, heap, direct, h_seen>>
    /\ UNCHANGED not_handle

\* The names found in DelayedValue.__dict__: the two fields and the methods.
HandleDict == {"_future", "_backend_session", "delayed_value", "__repr__",
               "_add_overloaded_method", "_undelay_arguments"}
               \cup OVERLOADED_METHODS \cup {"__setitem__", "__delitem__", "__getitem__"}

\* __setattr__: `if name in DelayedValue.__dict__`.
InHandleDictAlways(name) == TRUE
InHandleDict(name) == name \in HandleDict

\* The operations on the resolved object itself: the new object state and
\* what the operation gives (a list's item methods, an instance's attributes).
Returns(x)   == <<"return", x>>
RaisesIn(e)  == <<"raise", e>>
InRange(object, i) == i < Len(object.items)
RemoveAt(items, i) == [k \in 1..(Len(items) - 1) |-> IF k <= i THEN items[k] ELSE items[k + 1]]

Perform(object, op) ==
    CASE op.name = "setattr" ->
           [object |-> [object EXCEPT !.year = op.value], gives |-> Returns(None)]
      [] op.name = "getattr" ->
           [object |-> object, gives |-> Returns(object.year)]
      [] op.name = "__setitem__" ->
           IF InRange(object, op.index)
           THEN [object |-> [object EXCEPT !.items[op.index + 1] = op.value],
                 gives |-> Returns(None)]
           ELSE [object |-> object, gives |-> RaisesIn("IndexError")]
      [] op.name = "__delitem__" ->
           IF InRange(object, op.index)
           THEN [object |-> [object EXCEPT !.items = RemoveAt(@, op.index)],
                 gives |-> Returns(None)]
           ELSE [object |-> object, gives |-> RaisesIn("IndexError")]
      [] op.name = "__getitem__" ->
           IF InRange(object, op.index)
           THEN [object |-> object, gives |-> Returns(object.items[op.index + 1])]
           ELSE [object |-> object, gives |-> RaisesIn("IndexError")]
      [] op.name = "__iadd__" ->
           [object |-> [object EXCEPT !.items = @ \o <<op.value>>],
            gives |-> Returns("self")]

Op(name, attr, index, value) ==
    [name |-> name, attr |-> attr, index |-> index, value |-> value]

HandleOps ==
    {Op("setattr", a, 0, v) : a \in AttrNames, v \in Written}
    \cup {Op("getattr", a, 0, None) : a \in AttrNames}
    \cup {Op("__setitem__", None, i, v) : i \in Indices, v \in Written}
    \cup {Op("__delitem__", None, i, None) : i \in Indices}
    \cup {Op("__getitem__", None, i, None) : i \in Indices}
    \cup {Op("__iadd__", None, 0, v) : v \in Written}

\* Whether the task gave an object at all.
Resolved(f) == f.state = FINISHED /\ f.exception = None

\* One operation on the handle: __setattr__, __getattr__ or a forwarded
\* method.  A write of a name of DelayedValue.__dict__ goes to the handle;
\* everything else awaits self.delayed_value() and is applied to what it
\* returns, or raises what it raises.  The holder of the direct object does
\* the same operation on it.
Through(op) ==
    /\ op.name = "__iadd__" => Len(heap["obj"].items) < MaxItems
    /\ IF op.name = "setattr" /\ InHandleDict(op.attr)
       THEN /\ h_fields' = [a \in DOMAIN h_fields \cup {op.attr} |->
                               IF a = op.attr THEN op.value ELSE h_fields[a]]
            /\ h_seen' = {[op |-> op, handle |-> Returns(None),
                           direct |-> Perform(direct, op).gives]}
            /\ UNCHANGED heap
       ELSE /\ Done(h_future)
            /\ LET got == Result(h_future) IN
               IF got.kind = "raise"
               THEN /\ h_seen' = {[op |-> op, handle |-> RaisesIn(got.what),
                                   direct |-> RaisesIn(got.what)]}
                    /\ UNCHANGED heap
               ELSE /\ h_seen' = {[op |-> op,
                                   handle |-> Perform(heap[got.what], op).gives,
                                   direct |-> Perform(direct, op).gives]}
                    /\ heap' = [heap EXCEPT ![got.what] = Perform(@, op).object]
            /\ UNCHANGED h_fields
    /\ direct' = IF Resolved(h_future) THEN Perform(direct, op).object ELSE direct
    /\ UNCHANGED <<h_future, h_repr>>
    /\ UNCHANGED not_handle

HandleNext ==
    \/ \E d \in Durations : HResolve(d)
    \/ \E d \in Durations : HFail(d)
    \/ HCancel
    \/ ReprTest
    \/ ReprValue
    \/ \E op \in HandleOps : Through(op)

SpecHandle == HandleInit /\ [][HandleNext]_vars

(***************************************************************************)
(* Claims about one handle, checked under SpecHandle.                      *)
(***************************************************************************)
\* C11: __repr__ never blocks.  A thread inside __repr__ is in
\* delayed_value() only when the future is already done; any step of
\* __repr__ taken while the future is pending is the return of the pending
\* rendering; and a rendering of the value is only ever produced of a
\* future that resolved.
C11_ReprNeverBlocks ==
    /\ [](h_repr.pc = "delayed_value" => Done(h_future))
    /\ [][(h_repr' # h_repr /\ ~Done(h_future)) =>
             h_repr' = [pc |-> "idle", out |-> PendingRendering]]_vars
    /\ []((h_repr.out # <<>> /\ h_repr.out # PendingRendering
             /\ h_repr.out[1] = "DelayedValue(") => Resolved(h_future))

\* C11's case: __repr__ returned the pending rendering while the future was
\* still pending.
C11_Witness ==
    /\ h_future.state = PENDING
    /\ h_repr = [pc |-> "idle", out |-> PendingRendering]

\* C12: attribute writes of names that are no handle member, item
\* assignment and deletion and in-place addition through the handle leave
\* the handle's own fields as __init__ set them; once the task resolved, the
\* resolved object is what the same writes make of the object held
\* directly, and every read through the handle gives what the read gives
\* there.
C12_WritesGoToTheValue ==
    /\ h_fields = HandleFields
    /\ Resolved(h_future) =>
          /\ heap[h_future.result] = direct
          /\ \A o \in h_seen : o.handle = o.direct

\* C12's case: after handle[0] = w, the read handle[0] gives w.
C12_Witness ==
    /\ Resolved(h_future)
    /\ \E o \in h_seen :
          /\ o.op.name = "__getitem__" /\ o.op.index = 0
          /\ o.handle = Returns("w")
    /\ heap["obj"].items[1] = "w"

(***************************************************************************)
(* Further claims about ProfiledFuture, checked under SpecFuture.          *)
(***************************************************************************)
FiredCount(cb) == Cardinality({i \in 1..Len(fired) : fired[i].cb = cb})

\* The callbacks that were registered while the future was not done, in the
\* order of registration.
Listed == {future.done_callbacks[k] : k \in 1..Len(future.done_callbacks)}
PositionOf(cb) == CHOOSE k \in 1..Len(future.done_callbacks) : future.done_callbacks[k] = cb

\* The thread that took the future out of the pending state.
CompletingThread ==
    IF Cancelled(future) THEN "canceller"
    ELSE IF transitions # <<>> THEN transitions[1].by
    ELSE None

NobodyInvoking ==
    /\ \A t \in Completers : caller[t].pc # "invoke"
    /\ canceller.pc # "invoke"

\* C13 as stated: every callback fires in the thread that completes the
\* future, and the callbacks fire in the order of their registration (cb1 is
\* registered before cb2), also when a registration comes after completion.
C13_FiresInCompletingThreadFifo ==
    /\ \A i \in 1..Len(fired) : fired[i].by = CompletingThread
    /\ \A i, j \in 1..Len(fired) :
          (fired[i].cb = "cb1" /\ fired[j].cb = "cb2") => i < j

\* C13 amended: each registered callback fires exactly once, never before
\* the future is done and at the latest when the completing thread is
\* through with its callbacks; a callback registered while the future was
\* not done fires in the thread that completed or cancelled it, and these
\* fire in the order of registration; a callback registered when the future
\* was already done fires in the registering thread.
C13_CallbacksFireOnce ==
    /\ \A cb \in Callbacks :
          /\ FiredCount(cb) <= 1
          /\ FiredCount(cb) = 1 => (cb \in registered /\ Done(future))
    /\ (Done(future) /\ NobodyInvoking) => \A cb \in registered : FiredCount(cb) = 1
    /\ \A i \in 1..Len(fired) :
          fired[i].by = (IF fired[i].cb \in Listed THEN CompletingThread ELSE "registrar")
    /\ \A i, j \in 1..Len(fired) :
          (fired[i].cb \in Listed /\ fired[j].cb \in Listed
             /\ PositionOf(fired[i].cb) < PositionOf(fired[j].cb)) => i < j

\* C13's case: cb1 was registered before completion and cb2 after it; cb2
\* fired in the registering thread before the completing thread fired cb1.
C13_Witness ==
    /\ Len(fired) = 2
    /\ fired[1].cb = "cb2" /\ fired[1].by = "registrar"
    /\ fired[2].cb = "cb1" /\ fired[2].by \in Completers

\* What a call made on a done future gives, as <<"raise", error>> or
\* <<"return", ...>>.
\* result_and_duration(): result = self.result(timeout); return result, self._duration
ResultAndDurationUnprofiled(f) ==
    LET r == Result(f) IN
    IF r.kind = "raise" THEN <<"raise", r.what>> ELSE <<"return", r.what, None>>
ResultAndDuration(f) ==
    LET r == Result(f) IN
    IF r.kind = "raise" THEN <<"raise", r.what>> ELSE <<"return", r.what, f.duration>>

\* duration(): self.exception(timeout); return self._duration
Duration(f) ==
    LET e == Exception(f) IN
    IF e.kind = "raise" THEN <<"raise", e.what>> ELSE <<"return", f.duration>>

\* result, duration = future.result(), future.duration()
ResultThenDuration(f) ==
    LET r == Result(f) IN
    IF r.kind = "raise" THEN <<"raise", r.what>>
    ELSE IF Duration(f)[1] = "raise" THEN Duration(f)
    ELSE <<"return", r.what, Duration(f)[2]>>

\* C14: on a done future, in whatever state the completing threads have
\* left or are leaving it, result_and_duration() gives the value and the
\* duration that result() followed by duration() give, and raises what
\* result() raises, exactly when it does; and what a waiter got from
\* result_and_duration() is the outcome of result(), with a duration read
\* exactly when result() returned.
C14_ResultAndDurationIsThePair ==
    Done(future) =>
        /\ ResultAndDuration(future) = ResultThenDuration(future)
        /\ ResultAndDuration(future)[1] = "raise" <=> Result(future).kind = "raise"
        /\ \A o \in seen :
              o.method = "result_and_duration" =>
                 /\ o.outcome = Result(future)
                 /\ o.duration # "unread" <=> Result(future).kind = "return"

\* C14's case: a waiter got a value and a duration from
\* result_and_duration() of a future completed with a profiled result.
C14_Witness ==
    /\ future.state = FINISHED
    /\ \E o \in seen :
          /\ o.method = "result_and_duration"
          /\ o.outcome.kind = "return"
          /\ o.duration = "d1"

\* C15: duration() gives a duration or None and never raises, whatever way
\* the future got done: resolved, failed or cancelled.
C15_DurationNeverRaises ==
    /\ Done(future) => Duration(future)[1] = "return"
    /\ \A o \in seen : o.method = "duration" => o.outcome.kind = "return"

(***************************************************************************)
(* SpecParfun: one call of a function decorated with @parfun.  The         *)
(* decorator hands the call to the parallel-function engine, which splits  *)
(* the input items 1..pf_input into chunks of the sizes the estimator      *)
(* proposes, keeps at most Window chunks in flight on the backend, awaits  *)
(* them in submission order and hands each partial result to the          *)
(* combiner.  The backend completes the chunks in any order.  The function *)
(* is pure and otherwise arbitrary: its result on a chunk is the term      *)
(* F(first, last).                                                         *)
(***************************************************************************)
MaxInput == 4
MaxChunk == 2
Window   == 2

not_parfun == <<future_vars, dv_vars, ops_vars, fib_vars, handle_vars>>

\* The decorated function applied to the items first..last.
F(first, last) == <<"f", first, last>>

\* A chunk handed out by the partition generator, and its task on the backend.
Chunk(first, last) ==
    [first |-> first, last |-> last, status |-> "queued", order |-> 0]

ParfunInit ==
    /\ pf_input \in 0..MaxInput
    /\ pf_initial \in 1..MaxChunk
    /\ pf_pc = "called"
    /\ pf_pos = 0
    /\ pf_chunks = <<>>
    /\ pf_head = 1
    /\ pf_acc = <<>>
    /\ pf_result = <<>>
    /\ FutureIdle
    /\ DVIdle
    /\ OpsIdle
    /\ FibIdle
    /\ HandleIdle

\* wrapped(*args, **kwargs): return parallel_function(*args, **kwargs).  An
\* input smaller than 2 * initial size runs in-process, unpartitioned; else
\* the engine acquires a session and enters its pipeline loop.
wrapped ==
    /\ pf_pc = "called"
    /\ IF pf_input < 2 * pf_initial
       THEN /\ pf_pc' = "returned"
            /\ pf_result' = <<F(1, pf_input)>>
       ELSE /\ pf_pc' = "loop"
            /\ UNCHANGED pf_result
    /\ UNCHANGED <<pf_input, pf_initial, pf_pos, pf_chunks, pf_head, pf_acc>>
    /\ UNCHANGED not_parfun

InFlight == Len(pf_chunks) - (pf_head - 1)

\* Pipeline loop: the estimator proposes n, the generator hands out the next
\* n items (fewer at the end), the chunk is submitted.
SubmitChunk(n) ==
    /\ pf_pc = "loop"
    /\ InFlight < Window
    /\ pf_pos < pf_input
    /\ LET last == IF pf_pos + n > pf_input THEN pf_input ELSE pf_pos + n IN
       /\ pf_chunks' = Append(pf_chunks, Chunk(pf_pos + 1, last))
       /\ pf_pos' = last
    /\ UNCHANGED <<pf_input, pf_initial, pf_pc, pf_head, pf_acc, pf_result>>
    /\ UNCHANGED not_parfun

\* Pipeline loop: the generator is at its end.
EndOfStream ==
    /\ pf_pc = "loop"
    /\ InFlight < Window
    /\ pf_pos = pf_input
    /\ pf_pc' = "drain"
    /\ UNCHANGED <<pf_input, pf_initial, pf_pos, pf_chunks, pf_head, pf_acc, pf_result>>
    /\ UNCHANGED not_parfun

\* The backend completes a submitted chunk, in any order.
CompleteChunk(k) ==
    /\ pf_chunks[k].status = "queued"
    /\ pf_chunks' = [pf_chunks EXCEPT
          ![k].status = "done",
          ![k].order = 1 + Cardinality({j \in 1..Len(pf_chunks) : pf_chunks[j].status = "done"})]
    /\ UNCHANGED <<pf_input, pf_initial, pf_pc, pf_pos, pf_head, pf_acc, pf_result>>
    /\ UNCHANGED not_parfun

\* Await the head of the in-flight queue (when the window is full, and when
\* draining) and pass its value to the combiner.
AwaitHead ==
    /\ \/ pf_pc = "loop" /\ InFlight >= Window
       \/ pf_pc = "drain"
    /\ pf_head <= Len(pf_chunks)
    /\ pf_chunks[pf_head].status = "done"
    /\ pf_acc' = Append(pf_acc, F(pf_chunks[pf_head].first, pf_chunks[pf_head].last))
    /\ pf_head' = pf_head + 1
    /\ UNCHANGED <<pf_input, pf_initial, pf_pc, pf_pos, pf_chunks, pf_result>>
    /\ UNCHANGED not_parfun

\* The engine returns once every submitted chunk has been awaited.
DrainedEarly == TRUE
Drained == pf_head > Len(pf_chunks)

\* Return the combiner's final result; the session is released.
Return ==
    /\ pf_pc = "drain"
    /\ Drained
    /\ pf_result' = pf_acc
    /\ pf_pc' = "returned"
    /\ UNCHANGED <<pf_input, pf_initial, pf_pos, pf_chunks, pf_head, pf_acc>>
    /\ UNCHANGED not_parfun

ParfunNext ==
    \/ wrapped
    \/ \E n \in 1..MaxChunk : SubmitChunk(n)
    \/ EndOfStream
    \/ \E k \in 1..Len(pf_chunks) : CompleteChunk(k)
    \/ AwaitHead
    \/ Return

SpecParfun == ParfunInit /\ [][ParfunNext]_vars

\* The partitions of the call: the chunks the generator handed out, or the
\* whole input when the call ran in-process.
Partitions ==
    IF pf_chunks = <<>> THEN <<Chunk(1, pf_input)>> ELSE pf_chunks

\* The function run sequentially over the partitions.
SequentialResults == [k \in 1..Len(Partitions) |-> F(Partitions[k].first, Partitions[k].last)]

CountIn(seq, x) == Cardinality({i \in 1..Len(seq) : seq[i] = x})

\* C16: when the decorated call has returned, what the combiner was given is,
\* up to order, the function's results on the partitions one by one, each
\* exactly once, and the partitions are consecutive and cover the input; so
\* an associative-commutative combiner gives what it gives on the
\* sequential run, whatever order the chunks completed in.
C16_ResultEquivalence ==
    pf_pc = "returned" =>
        /\ Len(pf_result) = Len(SequentialResults)
        /\ \A k \in 1..Len(SequentialResults) :
              CountIn(pf_result, SequentialResults[k]) = CountIn(SequentialResults, SequentialResults[k])
        /\ Partitions[1].first = 1
        /\ Partitions[Len(Partitions)].last = pf_input
        /\ \A k \in 1..(Len(Partitions) - 1) : Partitions[k + 1].first = Partitions[k].last + 1

\* C16's case: a call with three chunks returned, and the second chunk had
\* completed before the first.
C16_Witness ==
    /\ pf_pc = "returned"
    /\ Len(pf_chunks) = 3
    /\ pf_chunks[2].order < pf_chunks[1].order

(***************************************************************************)
(* Further claims about DelayedValue constructions, checked under Spec.    *)
(***************************************************************************)

\* C17: when the argument of a construction is a handle whose await raises
\* (its task failed, or its future was cancelled), the construction raises
\* that error and has touched no backend: no session entered, nothing
\* submitted, the function not run.
C17_FailedArgumentRaisesFirst ==
    \A h \in Handles :
        LET k == dv[h].arg.handle IN
        (k # 0 /\ dv[h].pc # "unborn" /\ Result(fut[k]).kind = "raise") =>
            /\ dv[h].pc = "raised"
            /\ dv[h].raised = Result(fut[k]).what
            /\ session[h].entered = 0
            /\ task[h] = [status |-> "none", ran |-> None]
            /\ fut[h] = ProfiledFuture

\* C17's case: on a backend, handle 1's task failed and the construction of
\* handle 2 over handle 1 raised the task's error.
C17_Witness ==
    /\ current_backend # None
    /\ dv[2].arg = HandleArg(1)
    /\ fut[1].exception = "Error@f1"
    /\ dv[2].pc = "raised"
    /\ dv[2].raised = "Error@f1"

\* C18: when submit raises during a construction, the session the
\* construction had entered has been exited when the error leaves __init__.
C18_SessionExitedWhenSubmitRaises ==
    \A h \in Handles :
        (dv[h].pc = "raised" /\ session[h].entered = 1) =>
            Len(session[h].exits) = 1

\* C19: a handle that is directly the argument is replaced by its resolved
\* value before the backend is touched; a list holding a handle goes through
\* as it is: the construction starts whatever the state of the handle
\* inside (it is not awaited), and the handle inside is not replaced.
C19_UnwrappingIsOneLevel ==
    /\ \A h \in Handles : \A k \in 1..(h - 1) :
          (dv[h].pc = "unborn" /\ dv[h - 1].pc \in {"returned", "raised"}
              /\ dv[k].pc = "returned") =>
             ENABLED Undelay(h, ListArg(k))
    /\ \A h \in Handles :
        dv[h].pc \notin {"unborn", "raised"} =>
            /\ dv[h].arg.handle # 0 =>
                  /\ Done(fut[dv[h].arg.handle])
                  /\ dv[h].args = Result(fut[dv[h].arg.handle]).what
            /\ dv[h].arg.nested # 0 =>
                  dv[h].args = ListArg(dv[h].arg.nested).value

\* C19's case: handle 2 was constructed over a list holding handle 1 and its
\* task ran to the end with the handle inside the list, while handle 1's
\* future was still pending: the inner handle was never awaited.
C19_Witness ==
    /\ dv[2].arg = ListArg(1)
    /\ dv[2].pc = "returned"
    /\ fut[1].state = PENDING
    /\ fut[2].state = FINISHED /\ fut[2].result = "f2([handle1])"

\* A step of the construction of h, with plain argument a where it starts.
ConstructionStep(h) ==
    \/ \E a \in Atoms : Undelay(h, PlainArg(a))
    \/ NoBackend(h)
    \/ EnterSession(h)
    \/ Submit(h)
    \/ SubmitFails(h)
    \/ Register(h)

\* C20: a construction whose argument is no handle never waits, neither
\* for its own task nor for the tasks of earlier handles: whenever it has
\* not started (and the one before it is over) or is under way, its next
\* step can be taken at once; and no await returns while the future is
\* pending.
C20_ConstructionDoesNotWait ==
    /\ \A h \in Handles :
          \/ dv[h].pc \in {"returned", "raised"}
          \/ dv[h].pc = "unborn" /\ h > 1 /\ dv[h - 1].pc \notin {"returned", "raised"}
          \/ dv[h].pc # "unborn" /\ dv[h].arg.handle # 0
          \/ ENABLED ConstructionStep(h)
    /\ \A h \in Handles : ~Done(fut[h]) => ~ENABLED delayed_value(h)

\* C20's case: two handles constructed back to back over plain arguments
\* have both returned, and both tasks are running at the same time.
C20_Witness ==
    /\ dv[1].pc = "returned" /\ dv[2].pc = "returned"
    /\ dv[1].arg.handle = 0 /\ dv[2].arg = PlainArg("a")
    /\ task[1].status = "running" /\ task[2].status = "running"
    /\ fut[1].state = PENDING /\ fut[2].state = PENDING

(***************************************************************************)
(* Frame and single-execution claims.                                      *)
(***************************************************************************)

\* C21: a completion attempt on a future that is already completed or
\* cancelled changes nothing: once the future is done no step changes its
\* state, result, error or recorded duration, so the duration read after
\* completion is the one of the completion that succeeded.  Checked under
\* SpecFuture.
C21_RejectedAttemptChangesNothing ==
    [][Done(future) =>
          /\ future'.state \in {future.state, CANCELLED_AND_NOTIFIED}
          /\ future'.result = future.result
          /\ future'.exception = future.exception
          /\ future'.duration = future.duration]_vars

\* C22: release before observe.  Whenever a holder has got the value or
\* the error back from delayed_value() on a handle that entered a backend
\* session, that session has already been exited.  Checked under Spec.
C22_ReleaseBeforeObserve ==
    \A h \in Handles :
        (session[h].entered = 1 /\ Len(awaited[h]) >= 1) =>
            Len(session[h].exits) = 1

\* C23: single execution per handle.  A construction that returned a handle
\* has submitted the function once (with a backend) or run it once in the
\* caller (without one) and the handle holds the future it got then.  Later
\* no step submits or runs the function again or replaces the handle's
\* future, an await changes nothing but what the holder got, and all awaits
\* of a handle get the same thing.  Checked under Spec.
C23_SingleExecution ==
    /\ [](\A h \in Handles :
            /\ dv[h].pc = "returned" =>
                  /\ dv[h].future = h
                  /\ current_backend = None =>
                        task[h] = [status |-> "none", ran |-> "caller"]
                  /\ current_backend # None =>
                        task[h].status # "none" /\ task[h].ran \in {None, "backend"}
            /\ task[h].ran = "backend" => task[h].status \in {"callbacks", "done"}
            /\ task[h].status = "done" => task[h].ran = "backend"
            /\ \A i, j \in 1..Len(awaited[h]) : awaited[h][i] = awaited[h][j])
    /\ [][\A h \in Handles :
            /\ (task'[h].status = "queued" /\ task[h].status # "queued") =>
                  task[h].status = "none" /\ dv[h].pc = "entered"
            /\ (task'[h].status = "running" /\ task[h].status # "running") =>
                  task[h].status = "queued"
            /\ task'[h].ran # task[h].ran => task[h].ran = None
            /\ dv[h].pc \in {"submitted", "returned"} => dv'[h].future = dv[h].future
            /\ dv[h].pc = "returned" =>
                  /\ fut'[h].state # fut[h].state => ~Done(fut[h])
                  /\ fut'[h].result # fut[h].result => ~Done(fut[h])
            /\ awaited'[h] # awaited[h] =>
                  UNCHANGED <<dv, fut, task, session>>]_vars

\* C23's case: a handle whose task ran on the backend has been awaited
\* twice and the holder got the task's value both times.
C23_Witness ==
    \E h \in Handles :
        /\ task[h] = [status |-> "done", ran |-> "backend"]
        /\ Len(awaited[h]) = 2
        /\ awaited[h][1] = [kind |-> "return", what |-> TaskOutcome(h).what]
=============================================================================
